---- MODULE Spec2Model ----
(***************************************************************************)
(* Model of encratite/featured: the per-asset regression pipeline          *)
(* (loadDailyRecords, getClosestRecord, getRegressionCells, getR2Score,    *)
(* runBacktest, analyzeReturns, getSharpeRatio) and the report assembly    *)
(* (analyzeData over commons.ParallelMap).                                 *)
(*                                                                         *)
(* time.Time is modelled as <<day, hour>>: day is a day number, hour the   *)
(* time of day.  Day 0 is a Sunday, so day % 7 is Go's time.Weekday.       *)
(* float64 is modelled as an exact rational or one of NaN, +Inf, -Inf.     *)
(***************************************************************************)
EXTENDS Integers, Sequences, FiniteSets, TLC

(***************************************************************************)
(* float64                                                                 *)
(***************************************************************************)
Abs(x) == IF x < 0 THEN -x ELSE x

RECURSIVE GCD(_, _)
GCD(a, b) == IF b = 0 THEN a ELSE GCD(b, a % b)

NaN == [k |-> "nan", n |-> 0, d |-> 1]

PInf == [k |-> "pinf", n |-> 0, d |-> 1]

NInf == [k |-> "ninf", n |-> 0, d |-> 1]

\* the float n/d, d # 0, in lowest terms with a positive denominator
Rat(n, d) ==
    LET g == GCD(Abs(n), Abs(d))
        s == IF d < 0 THEN -1 ELSE 1
    IN  [k |-> "fin", n |-> (s * n) \div g, d |-> (s * d) \div g]

Int2F(i) == [k |-> "fin", n |-> i, d |-> 1]

Zero == Int2F(0)

One == Int2F(1)

IsNaN(a) == a.k = "nan"

IsInf(a) == a.k \in {"pinf", "ninf"}

IsFin(a) == a.k = "fin"

\* -1, 0, 1; the sign of an infinity is its direction
Sign(a) ==
    CASE a.k = "pinf" -> 1
      [] a.k = "ninf" -> -1
      [] a.k = "fin" -> (IF a.n > 0 THEN 1 ELSE IF a.n < 0 THEN -1 ELSE 0)
      [] OTHER -> 0

InfOf(s) == IF s > 0 THEN PInf ELSE NInf

FNeg(a) ==
    CASE a.k = "pinf" -> NInf
      [] a.k = "ninf" -> PInf
      [] a.k = "fin" -> Rat(-a.n, a.d)
      [] OTHER -> NaN

FAdd(a, b) ==
    IF IsNaN(a) \/ IsNaN(b) THEN NaN
    ELSE IF IsInf(a) /\ IsInf(b) THEN (IF a.k = b.k THEN a ELSE NaN)
    ELSE IF IsInf(a) THEN a
    ELSE IF IsInf(b) THEN b
    ELSE LET g == GCD(a.d, b.d)
         IN  Rat(a.n * (b.d \div g) + b.n * (a.d \div g), a.d * (b.d \div g))

FSub(a, b) == FAdd(a, FNeg(b))

FMul(a, b) ==
    IF IsNaN(a) \/ IsNaN(b) THEN NaN
    ELSE IF IsInf(a) \/ IsInf(b)
         THEN (IF Sign(a) * Sign(b) = 0 THEN NaN ELSE InfOf(Sign(a) * Sign(b)))
    ELSE LET g1 == GCD(Abs(a.n), b.d)
             g2 == GCD(Abs(b.n), a.d)
         IN  Rat((a.n \div g1) * (b.n \div g2), (a.d \div g2) * (b.d \div g1))

\* IEEE division: x/0 is an infinity, 0/0 and Inf/Inf are NaN
FDiv(a, b) ==
    IF IsNaN(a) \/ IsNaN(b) THEN NaN
    ELSE IF IsInf(a) THEN (IF IsInf(b) THEN NaN
                           ELSE InfOf(Sign(a) * (IF Sign(b) < 0 THEN -1 ELSE 1)))
    ELSE IF IsInf(b) THEN Zero
    ELSE IF b.n = 0 THEN (IF a.n = 0 THEN NaN ELSE InfOf(Sign(a)))
    ELSE LET g1 == GCD(Abs(a.n), Abs(b.n))
             g2 == GCD(a.d, b.d)
         IN  Rat((a.n \div g1) * (b.d \div g2), (a.d \div g2) * (b.n \div g1))

\* a < b; false when either is NaN
FLt(a, b) ==
    /\ ~IsNaN(a)
    /\ ~IsNaN(b)
    /\ \/ a.k = "ninf" /\ b.k # "ninf"
       \/ b.k = "pinf" /\ a.k # "pinf"
       \/ /\ IsFin(a)
          /\ IsFin(b)
          /\ LET g == GCD(a.d, b.d) IN a.n * (b.d \div g) < b.n * (a.d \div g)

FGt(a, b) == FLt(b, a)

\* a == b; false when either is NaN
FEq(a, b) == ~IsNaN(a) /\ ~IsNaN(b) /\ a = b

RECURSIVE SumSeq(_)
SumSeq(s) == IF s = <<>> THEN Zero ELSE FAdd(SumSeq(SubSeq(s, 1, Len(s) - 1)), s[Len(s)])

\* commons.Mean: the arithmetic mean; 0/0 = NaN for an empty slice
Mean(s) == FDiv(SumSeq(s), Int2F(Len(s)))

(***************************************************************************)
(* time.Time                                                               *)
(***************************************************************************)
sessionEnd == 21

daysPerWeek == 7

Midnight(day) == <<day, 0>>

AddDate(t, days) == <<t[1] + days, t[2]>>

Before(a, b) == a[1] < b[1] \/ (a[1] = b[1] /\ a[2] < b[2])

GetDate(t) == <<t[1], 0>>

GetTimeOfDay(t) == t[2]

Weekday(t) == t[1] % daysPerWeek

(***************************************************************************)
(* Bounds of the inputs                                                    *)
(***************************************************************************)
MaxRecords == 3

MaxIndexDates == 2

MaxLookupDay == 12

\* all sequences over S of length at most n
SeqsUpTo(S, n) == UNION {[1..m -> S] : m \in 0..n}

\* Go's nil for an optional *commons.SerializableDate
nil == <<"nil">>

VARIABLES
    configuration,      \* the global *Configuration
    records,            \* loadDailyRecords: the provider's []ohlc.Record
    startDate,          \* loadDailyRecords: the optional start date
    sessionEndFilter,   \* loadDailyRecords: collapse mode
    recordIndex,        \* loadDailyRecords: records consumed by the range loop
    output,             \* loadDailyRecords: the timePriceMap being built
    lookupMap,          \* getClosestRecord: indexMap
    lookupDate,         \* getClosestRecord: the date asked for
    lookupResult,       \* getClosestRecord: (time.Time, float64, bool)
    lookupDone,         \* getClosestRecord has returned
    symbol,             \* getRegressionCells: the asset's symbol
    assetStartDate,     \* getRegressionCells: the asset's optional start date
    assetRecords,       \* getRegressionCells: the asset's hourly records on disk
    assetMap,           \* getRegressionCells: the asset's daily closes
    referenceMap,       \* getRegressionCells: the reference asset's daily closes
    indexMap,           \* getRegressionCells: the index's daily closes
    date,               \* getRegressionCells: the loop variable
    trainingFeatures,
    trainingLabels,
    testFeatures,
    testLabels,
    trainingInfo,       \* per training example: its date and the index dates it read
    testInfo,           \* per test example: its date and the index dates it read
    cellsPc,            \* getRegressionCells: the statement reached
    model,              \* getRegressionCells: the *linear.LeastSquares
    cells,              \* getRegressionCells: the row built so far
    isR2Score,
    oosR2Score,
    longReturns,
    shortReturns,
    longAnalysis,       \* analyzeReturns(longReturns): totalReturn, sharpeRatio
    shortAnalysis,      \* analyzeReturns(shortReturns)
    fatal,              \* commons.Fatalf was called: the process has exited
    mainPc,             \* analyzeData: the statement reached
    header,             \* analyzeData: the table header
    workers,            \* ParallelMap: per asset, the state of its getRegressionCells call
    data,               \* ParallelMap: the result slice, one slot per input element
    arrival,            \* ParallelMap: the indices of the calls in the order they returned
    rows,               \* analyzeData: the table rows
    oosR2Scores,        \* analyzeData: the scores given to commons.Median
    stdout,             \* what the process has written to os.Stdout
    laterAssetMap,      \* a second run: the asset's closes, changed only after date
    laterReferenceMap,  \* a second run: the reference closes, changed only after date
    laterIndexMap,      \* a second run: the index closes, changed only after date
    example,            \* the loop body's outcome for date in the first run
    laterExample,       \* the loop body's outcome for date in the second run
    built               \* the runs whose loop body has been executed for date

loadVars == <<records, startDate, sessionEndFilter, recordIndex, output>>

lookupVars == <<lookupMap, lookupDate, lookupResult, lookupDone>>

partitionVars ==
    <<trainingFeatures, trainingLabels, testFeatures, testLabels, trainingInfo, testInfo>>

cellsVars ==
    <<symbol, assetStartDate, assetRecords, assetMap, referenceMap, indexMap, date,
      partitionVars, cellsPc>>

scoreVars ==
    <<model, cells, isR2Score, oosR2Score, longReturns, shortReturns, longAnalysis,
      shortAnalysis, fatal>>

mainVars == <<mainPc, header, workers, data, arrival, rows, oosR2Scores, stdout>>

pairVars ==
    <<laterAssetMap, laterReferenceMap, laterIndexMap, example, laterExample, built>>

vars == <<configuration, loadVars, lookupVars, cellsVars, scoreVars, mainVars, pairVars>>

\* the empty timePriceMap{}
EmptyMap == <<>>

Has(map, t) == t \in DOMAIN map

\* map[t] = close
Put(map, t, close) == (t :> close) @@ map

(***************************************************************************)
(* loadDailyRecords                                                        *)
(***************************************************************************)
\* one mutation of the loop body: the session-end record is stored under its
\* own timestamp instead of its calendar date
LoadRecordKeepsTime(out, record, start, filter) ==
    IF start # nil /\ Before(record.Timestamp, start) THEN out
    ELSE IF filter
         THEN IF GetTimeOfDay(record.Timestamp) = sessionEnd
              THEN Put(out, record.Timestamp, record.Close)
              ELSE out
         ELSE Put(out, record.Timestamp, record.Close)

\* the body of the range loop, for one record
LoadRecord(out, record, start, filter) ==
    IF start # nil /\ Before(record.Timestamp, start) THEN out
    ELSE IF filter
         THEN IF GetTimeOfDay(record.Timestamp) = sessionEnd
              THEN Put(out, GetDate(record.Timestamp), record.Close)
              ELSE out
         ELSE Put(out, record.Timestamp, record.Close)

RECURSIVE LoadFrom(_, _, _, _)
LoadFrom(out, recs, start, filter) ==
    IF recs = <<>> THEN out
    ELSE LoadFrom(LoadRecord(out, Head(recs), start, filter), Tail(recs), start, filter)

loadDailyRecords(recs, start, filter) == LoadFrom(EmptyMap, recs, start, filter)

LoadDays == 0..1

LoadHours == {0, sessionEnd - 1, sessionEnd}

LoadCloses == 1..2

LoadRecordValues ==
    [Timestamp : LoadDays \X LoadHours, Close : {Int2F(c) : c \in LoadCloses}]

LoadStartDates == {nil, <<1, 0>>, <<1, sessionEnd>>}

bitcoinSymbol == "BTCUSDT"

\* a configuration for the runs that read none of it
NoConfiguration ==
    [StartDate |-> Midnight(0), SplitDate |-> Midnight(0), EndDate |-> Midnight(0),
     IndexSymbol |-> "$SPX",
     EnableMomentum |-> TRUE, EnableReference |-> TRUE, EnableIndex |-> TRUE,
     EnableWeekdays |-> TRUE, EnableWeekdayFilter |-> FALSE, WeekdayFilter |-> 0,
     HoldingTime |-> 1, LongThreshold |-> Zero, ShortThreshold |-> Zero,
     RiskFreeRate |-> Zero, Assets |-> <<>>]

CellsIdle ==
    /\ symbol = bitcoinSymbol
    /\ assetStartDate = nil
    /\ assetRecords = <<>>
    /\ assetMap = EmptyMap
    /\ referenceMap = EmptyMap
    /\ indexMap = EmptyMap
    /\ date = Midnight(0)
    /\ trainingFeatures = <<>>
    /\ trainingLabels = <<>>
    /\ testFeatures = <<>>
    /\ testLabels = <<>>
    /\ trainingInfo = <<>>
    /\ testInfo = <<>>
    /\ cellsPc = "idle"

NoModel == [Parameters |-> <<>>]

NoAnalysis ==
    [totalReturn |-> Zero, sharpeRatio |-> [k |-> "nan", sign |-> 0, square |-> Zero]]

ScoreIdle ==
    /\ model = NoModel
    /\ cells = <<>>
    /\ isR2Score = Zero
    /\ oosR2Score = Zero
    /\ longReturns = <<>>
    /\ shortReturns = <<>>
    /\ longAnalysis = NoAnalysis
    /\ shortAnalysis = NoAnalysis
    /\ fatal = FALSE

LookupIdle ==
    /\ lookupMap = EmptyMap
    /\ lookupDate = Midnight(0)
    /\ lookupResult = [date |-> <<"0001-01-01">>, close |-> NaN, exists |-> FALSE]
    /\ lookupDone = FALSE

PairIdle ==
    /\ laterAssetMap = <<>>
    /\ laterReferenceMap = <<>>
    /\ laterIndexMap = <<>>
    /\ example = [skip |-> TRUE]
    /\ laterExample = [skip |-> TRUE]
    /\ built = {}

MainIdle ==
    /\ mainPc = "idle"
    /\ header = <<>>
    /\ workers = <<>>
    /\ data = <<>>
    /\ arrival = <<>>
    /\ rows = <<>>
    /\ oosR2Scores = <<>>
    /\ stdout = <<>>

LoadIdle ==
    /\ records = <<>>
    /\ startDate = nil
    /\ sessionEndFilter = FALSE
    /\ recordIndex = 0
    /\ output = EmptyMap

InitLoad ==
    /\ configuration = NoConfiguration
    /\ records \in SeqsUpTo(LoadRecordValues, MaxRecords)
    /\ startDate \in LoadStartDates
    /\ sessionEndFilter \in BOOLEAN
    /\ recordIndex = 0
    /\ output = EmptyMap
    /\ LookupIdle
    /\ CellsIdle
    /\ ScoreIdle
    /\ MainIdle
    /\ PairIdle

\* one iteration of "for _, record := range records"
LoadStep ==
    /\ recordIndex < Len(records)
    /\ recordIndex' = recordIndex + 1
    /\ output' = LoadRecord(output, records[recordIndex + 1], startDate, sessionEndFilter)
    /\ UNCHANGED <<configuration, mainVars, pairVars, records, startDate, sessionEndFilter,
                   lookupVars,
                   cellsVars, scoreVars>>

NextLoad == LoadStep

SpecLoad == InitLoad /\ [][NextLoad]_vars

\* the records consumed so far that collapse mode keeps under calendar day `day`
KeptFor(day) ==
    {i \in 1..recordIndex :
        /\ records[i].Timestamp = <<day, sessionEnd>>
        /\ (startDate = nil \/ ~Before(records[i].Timestamp, startDate))}

(* C10: in collapse mode every key of the map is a calendar date (midnight), so
   no two entries share a calendar date, and every entry holds the close of an
   input record at exactly 21:00 of that date that is not before the start date
   (the last such record in input order); a date with no such record has no
   entry, whatever records with another time of day it has. *)
C10_CollapseMode ==
    sessionEndFilter =>
        /\ \A t \in DOMAIN output :
            /\ t = GetDate(t)
            /\ KeptFor(t[1]) # {}
            /\ \E i \in KeptFor(t[1]) :
                /\ \A j \in KeptFor(t[1]) : j <= i
                /\ output[t] = records[i].Close
        /\ \A t1, t2 \in DOMAIN output : t1[1] = t2[1] => t1 = t2
        /\ \A day \in LoadDays : KeptFor(day) = {} => ~Has(output, Midnight(day))

\* a finished collapse-mode load that kept a record, dropped one for its time of
\* day and dropped a session-end record for lying before the start date
C10_Witness ==
    /\ sessionEndFilter
    /\ recordIndex = Len(records)
    /\ DOMAIN output # {}
    /\ \E i \in 1..Len(records) : GetTimeOfDay(records[i].Timestamp) # sessionEnd
    /\ startDate # nil
    /\ \E i \in 1..Len(records) :
        /\ GetTimeOfDay(records[i].Timestamp) = sessionEnd
        /\ Before(records[i].Timestamp, startDate)

(***************************************************************************)
(* getClosestRecord                                                        *)
(***************************************************************************)
LookbackSteps == 10

\* time.Time{}
ZeroTime == <<"0001-01-01">>

NotFound == [date |-> ZeroTime, close |-> NaN, exists |-> FALSE]

\* the "for range 10" loop with n iterations left
RECURSIVE ClosestFrom(_, _, _)
ClosestFrom(from, series, n) ==
    IF n = 0 THEN NotFound
    ELSE IF Has(series, from)
         THEN [date |-> from, close |-> series[from], exists |-> TRUE]
         ELSE ClosestFrom(AddDate(from, -1), series, n - 1)

\* one mutation: the loop steps forward, to the next day
RECURSIVE ClosestAfter(_, _, _)
ClosestAfter(from, series, n) ==
    IF n = 0 THEN NotFound
    ELSE IF Has(series, from)
         THEN [date |-> from, close |-> series[from], exists |-> TRUE]
         ELSE ClosestAfter(AddDate(from, 1), series, n - 1)

getClosestRecordForward(from, series) == ClosestAfter(from, series, LookbackSteps)

\* one mutation: the loop runs one iteration more and reaches T-10
getClosestRecordLong(from, series) == ClosestFrom(from, series, LookbackSteps + 1)

\* one mutation: the loop runs one iteration short
getClosestRecordShort(from, series) == ClosestFrom(from, series, LookbackSteps - 1)

getClosestRecord(from, series) == ClosestFrom(from, series, LookbackSteps)

\* the daily close of the index on day d: the closes of different days differ
IndexClose(d) == Int2F(d + 1)

\* a pass-through series of daily bars on the days of S
IndexSeries(S) == [t \in {Midnight(d) : d \in S} |-> IndexClose(t[1])]

InitLookup ==
    /\ configuration = NoConfiguration
    /\ LoadIdle
    /\ CellsIdle
    /\ ScoreIdle
    /\ MainIdle
    /\ PairIdle
    /\ \E S \in SUBSET (0..MaxLookupDay) :
        /\ Cardinality(S) <= MaxIndexDates
        /\ lookupMap = IndexSeries(S)
    /\ lookupDate \in {Midnight(d) : d \in 0..MaxLookupDay}
    /\ lookupResult = NotFound
    /\ lookupDone = FALSE

Lookup ==
    /\ ~lookupDone
    /\ lookupResult' = getClosestRecord(lookupDate, lookupMap)
    /\ lookupDone' = TRUE
    /\ UNCHANGED <<configuration, mainVars, pairVars, loadVars, lookupMap, lookupDate,
                   cellsVars, scoreVars>>

NextLookup == Lookup

SpecLookup == InitLookup /\ [][NextLookup]_vars

(* C2: if the series has a price at D and none at D+1..D+9, a query for any
   date in (D, D+9] returns the price at D and reports D as the found date; a
   query for a date with no price in the 10 days before it nor on it (the most
   recent earlier price, if any, is more than 10 days back) returns not-found. *)
C2_ClosestPrior ==
    lookupDone =>
        LET q == lookupDate[1] IN
        /\ \A D \in 0..MaxLookupDay :
            ( /\ Has(lookupMap, Midnight(D))
              /\ \A e \in (D + 1)..(D + 9) : ~Has(lookupMap, Midnight(e))
              /\ D < q
              /\ q <= D + 9 )
            => /\ lookupResult.exists
               /\ lookupResult.date = Midnight(D)
               /\ lookupResult.close = lookupMap[Midnight(D)]
        /\ (\A e \in (q - 10)..q : ~Has(lookupMap, Midnight(e)))
            => ~lookupResult.exists

\* a query 9 days after the only recent price, answered with that price
C2_Witness ==
    /\ lookupDone
    /\ lookupResult.exists
    /\ lookupResult.date = AddDate(lookupDate, -9)
    /\ lookupResult.close = lookupMap[AddDate(lookupDate, -9)]

\* a query more than 10 days after the most recent price, answered not-found
C2_WitnessGap ==
    /\ lookupDone
    /\ ~lookupResult.exists
    /\ \E D \in 0..MaxLookupDay : Has(lookupMap, Midnight(D)) /\ D < lookupDate[1] - 10

(* C11: a query for T reports found exactly when the series has a price at some
   date in [T-10, T], also when the most recent price is exactly 10 days before
   T, and then returns the latest such date with its price; otherwise it reports
   not-found. *)
C11_AsStated ==
    lookupDone =>
        LET q == lookupDate[1]
            hits == {e \in (q - 10)..q : Has(lookupMap, Midnight(e))}
        IN  /\ lookupResult.exists <=> hits # {}
            /\ lookupResult.exists =>
                /\ lookupResult.date[1] \in hits
                /\ \A e \in hits : e <= lookupResult.date[1]
                /\ lookupResult.close = lookupMap[lookupResult.date]

(* C11, amended: the lookup checks the 10 dates T, T-1, .., T-9.  A query for T
   reports found exactly when the series has a price at some date in [T-9, T]
   and then returns the latest such date with its price; when the most recent
   price is 10 days before T or older it reports not-found. *)
C11_LookbackWindow ==
    lookupDone =>
        LET q == lookupDate[1]
            hits == {e \in (q - (LookbackSteps - 1))..q : Has(lookupMap, Midnight(e))}
        IN  /\ lookupResult.exists <=> hits # {}
            /\ lookupResult.exists =>
                /\ lookupResult.date[1] \in hits
                /\ \A e \in hits : e <= lookupResult.date[1]
                /\ lookupResult.close = lookupMap[lookupResult.date]
            /\ ~lookupResult.exists => lookupResult = NotFound

\* a query exactly 10 days after the most recent price, answered not-found
C11_Witness ==
    /\ lookupDone
    /\ Has(lookupMap, AddDate(lookupDate, -LookbackSteps))
    /\ \A e \in 0..(LookbackSteps - 1) : ~Has(lookupMap, AddDate(lookupDate, -e))
    /\ ~lookupResult.exists

(***************************************************************************)
(* getRegressionCells: the loop over the dates of [StartDate, EndDate)     *)
(***************************************************************************)
getRateOfChange(a, b) == FSub(FDiv(a, b), One)

\* time.Weekday.String(), Sunday = 0
WeekdayName ==
    [w \in 0..(daysPerWeek - 1) |->
        <<"Sunday", "Monday", "Tuesday", "Wednesday", "Thursday", "Friday", "Saturday">>[w + 1]]

\* one mutation: the slot is int(weekday) - 1, which no slot has on a Sunday
WeekdayIndicatorsMinusOne(weekday) ==
    LET weekdayIndex == weekday - 1
    IN  [j \in 1..daysPerWeek |->
            [value |-> IF j - 1 = weekdayIndex THEN One ELSE Zero,
             name |-> WeekdayName[j % daysPerWeek]]]

\* the 7 weekday indicators; weekday is Go's time.Weekday.  Each entry carries,
\* beside its value, the weekday on whose dates the slot is 1.
WeekdayIndicators(weekday) ==
    LET weekdayIndex == (weekday + 6) % daysPerWeek
    IN  [j \in 1..daysPerWeek |->
            [value |-> IF j - 1 = weekdayIndex THEN One ELSE Zero,
             name |-> WeekdayName[CHOOSE w \in 0..(daysPerWeek - 1) :
                                      (w + 6) % daysPerWeek = j - 1]]]

\* dailyFeatures: the enabled feature groups, appended in the order of the code;
\* each entry carries the quantity it holds beside its value
DailyFeatures(assetMomentum, referenceMomentum, indexMomentum, weekday) ==
    (IF configuration.EnableMomentum
     THEN <<[value |-> assetMomentum, name |-> "asset momentum"]>> ELSE <<>>)
    \o (IF configuration.EnableReference
        THEN <<[value |-> referenceMomentum, name |-> "reference momentum"]>> ELSE <<>>)
    \o (IF configuration.EnableIndex
        THEN <<[value |-> indexMomentum, name |-> "index momentum"]>> ELSE <<>>)
    \o (IF configuration.EnableWeekdays THEN WeekdayIndicators(weekday) ELSE <<>>)

Values(entries) == [i \in 1..Len(entries) |-> entries[i].value]

Names(entries) == [i \in 1..Len(entries) |-> entries[i].name]

Skipped == [skip |-> TRUE]

\* one mutation: the previous index close is looked up from the found date itself
PreviousIndexCloseDateSame(d, current) == current.date

\* one mutation: the previous index close is looked up from the day before d
PreviousIndexCloseDateNominal(d, current) == AddDate(d, -1)

\* currentIndexCloseDate.AddDate(0, 0, -1)
PreviousIndexCloseDate(d, current) == AddDate(current.date, -1)

\* the loop body for date d: "continue" (Skipped) or the example of d
Example(sym, d, aMap, rMap, iMap) ==
    LET weekday == Weekday(d)
        current == getClosestRecord(d, iMap)
        previousIndexCloseDate == PreviousIndexCloseDate(d, current)
        previous == getClosestRecord(previousIndexCloseDate, iMap)
        previousDate == AddDate(d, -1)
        nextCloseTimestamp == AddDate(d, configuration.HoldingTime)
        assetMomentum == getRateOfChange(aMap[d], aMap[previousDate])
        referenceMomentum ==
            IF sym # bitcoinSymbol
            THEN getRateOfChange(rMap[d], rMap[previousDate])
            ELSE Zero
        indexMomentum == getRateOfChange(current.close, previous.close)
    IN  IF configuration.EnableWeekdayFilter /\ weekday # configuration.WeekdayFilter
        THEN Skipped
        ELSE IF ~current.exists THEN Skipped
        ELSE IF ~previous.exists THEN Skipped
        ELSE IF ~Has(aMap, d) THEN Skipped
        ELSE IF ~Has(aMap, previousDate) THEN Skipped
        ELSE IF ~Has(aMap, nextCloseTimestamp) THEN Skipped
        ELSE IF ~Has(rMap, d) THEN Skipped
        ELSE IF ~Has(rMap, previousDate) THEN Skipped
        ELSE LET dailyFeatures == DailyFeatures(assetMomentum, referenceMomentum,
                                                indexMomentum, weekday)
             IN  [skip |-> FALSE,
                  features |-> Values(dailyFeatures),
                  label |-> getRateOfChange(aMap[nextCloseTimestamp], aMap[d]),
                  info |-> [date |-> d, indexDate |-> current.date,
                            previousIndexDate |-> previous.date,
                            names |-> Names(dailyFeatures)]]

\* one mutation: the split date itself is routed to training
IsTrainingInclusive(d) == ~Before(configuration.SplitDate, d)

\* date.Before(configuration.SplitDate.Time)
IsTraining(d) == Before(d, configuration.SplitDate)

\* the four slices of getRegressionCells, with the record of what each example read
EmptyPartitions ==
    [trainingFeatures |-> <<>>, trainingLabels |-> <<>>, trainingInfo |-> <<>>,
     testFeatures |-> <<>>, testLabels |-> <<>>, testInfo |-> <<>>]

Partitions ==
    [trainingFeatures |-> trainingFeatures, trainingLabels |-> trainingLabels,
     trainingInfo |-> trainingInfo, testFeatures |-> testFeatures,
     testLabels |-> testLabels, testInfo |-> testInfo]

\* the slices after the loop body ran for date d
WalkStep(acc, sym, d, aMap, rMap, iMap) ==
    LET e == Example(sym, d, aMap, rMap, iMap) IN
    IF e.skip THEN acc
    ELSE IF IsTraining(d)
         THEN [acc EXCEPT !.trainingFeatures = Append(@, e.features),
                          !.trainingLabels = Append(@, e.label),
                          !.trainingInfo = Append(@, e.info)]
         ELSE [acc EXCEPT !.testFeatures = Append(@, e.features),
                          !.testLabels = Append(@, e.label),
                          !.testInfo = Append(@, e.info)]

\* the whole loop, from date d on
RECURSIVE WalkFrom(_, _, _, _, _, _)
WalkFrom(acc, sym, d, aMap, rMap, iMap) ==
    IF ~Before(d, configuration.EndDate) THEN acc
    ELSE WalkFrom(WalkStep(acc, sym, d, aMap, rMap, iMap), sym, AddDate(d, 1),
                  aMap, rMap, iMap)

MaxDay == 5

AssetClose == [d \in 0..(MaxDay + 1) |-> Int2F(d + 1)]

ReferenceClose == [d \in 0..(MaxDay + 1) |-> Int2F(2 * d + 1)]

\* hourly records of days 0..MaxDay in file order: a bar one hour before the
\* session end on every day and, except on the days of `missing`, one at it
RECURSIVE HourlyRecords(_, _, _)
HourlyRecords(d, missing, close) ==
    IF d > MaxDay THEN <<>>
    ELSE <<[Timestamp |-> <<d, sessionEnd - 1>>, Close |-> close[d + 1]]>>
         \o (IF d \in missing THEN <<>>
             ELSE <<[Timestamp |-> <<d, sessionEnd>>, Close |-> close[d]]>>)
         \o HourlyRecords(d + 1, missing, close)

\* the enable flags drawn for the walk, with the symbol of the asset
FeatureChoices ==
    { [sym |-> "ETHUSDT", m |-> TRUE, r |-> TRUE, i |-> TRUE, w |-> TRUE],
      [sym |-> bitcoinSymbol, m |-> TRUE, r |-> TRUE, i |-> FALSE, w |-> FALSE],
      [sym |-> "ETHUSDT", m |-> FALSE, r |-> FALSE, i |-> TRUE, w |-> TRUE] }

StartDay == 1

WalkConfigurations ==
    { [NoConfiguration EXCEPT
         !.StartDate = Midnight(StartDay), !.SplitDate = Midnight(split),
         !.EndDate = Midnight(end), !.HoldingTime = h,
         !.EnableWeekdayFilter = wf, !.WeekdayFilter = StartDay + 1,
         !.EnableMomentum = f.m, !.EnableReference = f.r,
         !.EnableIndex = f.i, !.EnableWeekdays = f.w] :
        end \in (StartDay + 2)..(MaxDay - 1), split \in StartDay..MaxDay, h \in 1..2,
        wf \in BOOLEAN, f \in FeatureChoices }

\* the gaps of the input: at most one session-end bar is missing, in the asset's
\* or the reference's series, or the asset has a start date of its own
MissingChoices ==
    {[asset |-> {}, reference |-> {}, start |-> nil]}
    \cup {[asset |-> {}, reference |-> {}, start |-> Midnight(StartDay + 1)]}
    \cup {[asset |-> {d}, reference |-> {}, start |-> nil] : d \in 0..MaxDay}
    \cup {[asset |-> {}, reference |-> {d}, start |-> nil] : d \in 0..MaxDay}

InitCells ==
    /\ LoadIdle
    /\ LookupIdle
    /\ ScoreIdle
    /\ MainIdle
    /\ PairIdle
    /\ configuration \in WalkConfigurations
    /\ \E f \in FeatureChoices :
        /\ symbol = f.sym
        /\ configuration.EnableMomentum = f.m
        /\ configuration.EnableReference = f.r
        /\ configuration.EnableIndex = f.i
        /\ configuration.EnableWeekdays = f.w
    /\ configuration.SplitDate[1] <= configuration.EndDate[1]
    /\ \E miss \in MissingChoices :
        /\ assetStartDate = miss.start
        /\ assetRecords = HourlyRecords(0, miss.asset, AssetClose)
        /\ referenceMap =
             loadDailyRecords(HourlyRecords(0, miss.reference, ReferenceClose), nil, TRUE)
    /\ \E S \in SUBSET (0..MaxDay) :
        /\ Cardinality(S) <= MaxIndexDates
        /\ indexMap = IndexSeries(S)
    /\ assetMap = EmptyMap
    /\ date = Midnight(0)
    /\ trainingFeatures = <<>>
    /\ trainingLabels = <<>>
    /\ testFeatures = <<>>
    /\ testLabels = <<>>
    /\ trainingInfo = <<>>
    /\ testInfo = <<>>
    /\ cellsPc = "load"

\* assetMap := loadDailyRecords(symbol, startDate, true, false); date := StartDate
LoadAsset ==
    /\ cellsPc = "load"
    /\ assetMap' = loadDailyRecords(assetRecords, assetStartDate, TRUE)
    /\ date' = configuration.StartDate
    /\ cellsPc' = "walk"
    /\ UNCHANGED <<configuration, mainVars, pairVars, loadVars, lookupVars, scoreVars, symbol,
                   assetStartDate,
                   assetRecords, referenceMap, indexMap, partitionVars>>

\* one iteration of the for loop, with its post statement
WalkDate ==
    /\ cellsPc = "walk"
    /\ Before(date, configuration.EndDate)
    /\ LET acc == WalkStep(Partitions, symbol, date, assetMap, referenceMap, indexMap) IN
        /\ trainingFeatures' = acc.trainingFeatures
        /\ trainingLabels' = acc.trainingLabels
        /\ trainingInfo' = acc.trainingInfo
        /\ testFeatures' = acc.testFeatures
        /\ testLabels' = acc.testLabels
        /\ testInfo' = acc.testInfo
    /\ date' = AddDate(date, 1)
    /\ UNCHANGED <<configuration, mainVars, pairVars, loadVars, lookupVars, scoreVars, symbol,
                   assetStartDate,
                   assetRecords, assetMap, referenceMap, indexMap, cellsPc>>

\* the loop condition fails: control reaches the model fit
EndWalk ==
    /\ cellsPc = "walk"
    /\ ~Before(date, configuration.EndDate)
    /\ cellsPc' = "fit"
    /\ UNCHANGED <<configuration, mainVars, pairVars, loadVars, lookupVars, scoreVars, symbol,
                   assetStartDate,
                   assetRecords, assetMap, referenceMap, indexMap, date, partitionVars>>

NextCells == LoadAsset \/ WalkDate \/ EndWalk

SpecCells == InitCells /\ [][NextCells]_vars

\* the dates the loop has walked so far
Walked ==
    IF cellsPc \in {"walk", "fit"}
    THEN {Midnight(d) : d \in configuration.StartDate[1]..(date[1] - 1)}
    ELSE {}

TrainingDates == {trainingInfo[i].date : i \in 1..Len(trainingInfo)}

TestDates == {testInfo[i].date : i \in 1..Len(testInfo)}

\* the number of examples of date d in the two partitions
ExamplesOf(d) ==
    Cardinality({i \in 1..Len(trainingInfo) : trainingInfo[i].date = d})
    + Cardinality({i \in 1..Len(testInfo) : testInfo[i].date = d})

(* C1: every walked date that produces an example has it in the training
   partition and not in the test partition if it is before the split date, and
   in the test partition and not in the training partition otherwise; every
   training example's date is in [StartDate, SplitDate), every test example's
   date is at or after both StartDate and SplitDate and before EndDate. *)
C1_PartitionRouting ==
    /\ Len(trainingFeatures) = Len(trainingInfo)
    /\ Len(trainingLabels) = Len(trainingInfo)
    /\ Len(testFeatures) = Len(testInfo)
    /\ Len(testLabels) = Len(testInfo)
    /\ \A d \in Walked :
        ~Example(symbol, d, assetMap, referenceMap, indexMap).skip =>
            IF d[1] < configuration.SplitDate[1]
            THEN d \in TrainingDates /\ d \notin TestDates
            ELSE d \in TestDates /\ d \notin TrainingDates
    /\ \A d \in TrainingDates :
        /\ d \in Walked
        /\ configuration.StartDate[1] <= d[1]
        /\ d[1] < configuration.SplitDate[1]
        /\ d[1] < configuration.EndDate[1]
    /\ \A d \in TestDates :
        /\ d \in Walked
        /\ configuration.StartDate[1] <= d[1]
        /\ configuration.SplitDate[1] <= d[1]
        /\ d[1] < configuration.EndDate[1]
    /\ TrainingDates \cap TestDates = {}

\* a finished walk with examples on both sides, one of them on the split date
C1_Witness ==
    /\ cellsPc = "fit"
    /\ trainingInfo # <<>>
    /\ configuration.SplitDate \in TestDates
    /\ AddDate(configuration.SplitDate, -1) \in TrainingDates

IndexDaysIn(lo, hi) == {e \in lo..hi : Has(indexMap, Midnight(e))}

MaxOf(S) == CHOOSE x \in S : \A y \in S : y <= x

\* every join key of date d is there: the index close within the lookback of d,
\* the index close before that one, the asset at d, d-1 and d+HoldingTime, the
\* reference at d and d-1
AllKeysPresent(d) ==
    /\ IndexDaysIn(d[1] - (LookbackSteps - 1), d[1]) # {}
    /\ LET F == MaxOf(IndexDaysIn(d[1] - (LookbackSteps - 1), d[1]))
       IN  IndexDaysIn(F - LookbackSteps, F - 1) # {}
    /\ Has(assetMap, d)
    /\ Has(assetMap, AddDate(d, -1))
    /\ Has(assetMap, AddDate(d, configuration.HoldingTime))
    /\ Has(referenceMap, d)
    /\ Has(referenceMap, AddDate(d, -1))

PassesWeekdayFilter(d) ==
    configuration.EnableWeekdayFilter => Weekday(d) = configuration.WeekdayFilter

(* C3 as stated: a walked date with a join key missing has no example, a walked
   date with every join key present has exactly one, and the sizes of the two
   partitions add up to the number of walked dates with every key present. *)
C3_AsStated ==
    /\ \A d \in Walked : ExamplesOf(d) = (IF AllKeysPresent(d) THEN 1 ELSE 0)
    /\ Len(trainingInfo) + Len(testInfo)
         = Cardinality({d \in Walked : AllKeysPresent(d)})

(* C3, amended: a walked date with a join key missing, or one the weekday filter
   rejects, has no example in either partition; a walked date that passes the
   weekday filter (every date when the filter is off) and has every join key
   has exactly one; the sizes of the two partitions add up to the number of
   such dates. *)
C3_SkipOrOneExample ==
    /\ \A d \in Walked :
        ExamplesOf(d) = (IF PassesWeekdayFilter(d) /\ AllKeysPresent(d) THEN 1 ELSE 0)
    /\ Len(trainingInfo) + Len(testInfo)
         = Cardinality({d \in Walked : PassesWeekdayFilter(d) /\ AllKeysPresent(d)})

\* a finished walk under the weekday filter that kept a date and skipped one
\* that had every join key
C3_Witness ==
    /\ cellsPc = "fit"
    /\ configuration.EnableWeekdayFilter
    /\ \E d \in Walked : ExamplesOf(d) = 1
    /\ \E d \in Walked : AllKeysPresent(d) /\ ~PassesWeekdayFilter(d) /\ ExamplesOf(d) = 0

\* a finished walk without the filter that kept a date and skipped one for a
\* missing key
C3_WitnessMissingKey ==
    /\ cellsPc = "fit"
    /\ ~configuration.EnableWeekdayFilter
    /\ \E d \in Walked : ExamplesOf(d) = 1
    /\ \E d \in Walked : ~AllKeysPresent(d) /\ ExamplesOf(d) = 0

\* the examples of both partitions, each with the record of what it read
Examples ==
    [i \in 1..Len(trainingInfo) |->
        [info |-> trainingInfo[i], features |-> trainingFeatures[i]]]
    \o [i \in 1..Len(testInfo) |-> [info |-> testInfo[i], features |-> testFeatures[i]]]

\* the dates of indexMap from day lo to day hi
IndexDatesIn(lo, hi) == {t \in DOMAIN indexMap : lo <= t[1] /\ t[1] <= hi}

(* C12: for every example on date d, the current index close is the one at the
   latest index date F <= d, and the previous index close is the one at the
   latest index date G <= F - 1, looked up from F minus one day and not from d
   minus one day; so G is strictly earlier than F, also when d falls in a gap of
   the index series, and the index momentum is the rate of change from the
   close at G to the close at F. *)
C12_IndexChaining ==
    \A i \in 1..Len(Examples) :
        LET e == Examples[i]
            d == e.info.date
            F == e.info.indexDate
            G == e.info.previousIndexDate
        IN  /\ F \in DOMAIN indexMap
            /\ F[1] <= d[1]
            /\ IndexDatesIn(F[1] + 1, d[1]) = {}
            /\ G \in DOMAIN indexMap
            /\ G[1] < F[1]
            /\ IndexDatesIn(G[1] + 1, F[1] - 1) = {}
            /\ \A k \in 1..Len(e.features) :
                e.info.names[k] = "index momentum" =>
                    e.features[k] = getRateOfChange(indexMap[F], indexMap[G])

\* an example on a date in a gap of the index series: the index has no bar on
\* the date nor on the day before the found date
C12_Witness ==
    \E i \in 1..Len(Examples) :
        LET e == Examples[i] IN
        /\ configuration.EnableIndex
        /\ e.info.indexDate[1] < e.info.date[1]
        /\ e.info.previousIndexDate[1] < e.info.indexDate[1] - 1

(***************************************************************************)
(* getRegressionCells after the loop: fit, coefficients, R2, backtest      *)
(***************************************************************************)
weeksPerYear == 52

featureHighlightThreshold == Rat(5, 100)

Sq(a) == FMul(a, a)

\* linear.LeastSquares.Predict: Parameters[0] + sum of x[i] * Parameters[i+1]; an
\* error when the input is not one shorter than the parameter vector
Predict(mdl, x) ==
    IF Len(x) + 1 # Len(mdl.Parameters)
    THEN [err |-> TRUE, value |-> NaN]
    ELSE [err |-> FALSE,
          value |-> FAdd(mdl.Parameters[1],
                         SumSeq([i \in 1..Len(x) |-> FMul(x[i], mdl.Parameters[i + 1])]))]

\* the sum of squared deviations of the labels from their mean
TotalSum(labels) ==
    LET meanObserved == Mean(labels)
    IN  SumSeq([i \in 1..Len(labels) |-> Sq(FSub(labels[i], meanObserved))])

\* one mutation: the ratio is returned, not its complement
getR2ScoreRatio(xs, labels, mdl) ==
    LET prediction == [i \in 1..Len(xs) |-> Predict(mdl, xs[i])]
        residualSum ==
            SumSeq([i \in 1..Len(xs) |-> Sq(FSub(labels[i], prediction[i].value))])
        totalSum == TotalSum([i \in 1..Len(xs) |-> labels[i]])
    IN  IF \E i \in 1..Len(xs) : prediction[i].err
        THEN [fatal |-> TRUE, value |-> NaN]
        ELSE [fatal |-> FALSE, value |-> FDiv(residualSum, totalSum)]

\* fatal: a prediction failed and commons.Fatalf ended the process
getR2Score(xs, labels, mdl) ==
    LET prediction == [i \in 1..Len(xs) |-> Predict(mdl, xs[i])]
        residualSum ==
            SumSeq([i \in 1..Len(xs) |-> Sq(FSub(labels[i], prediction[i].value))])
        totalSum == TotalSum([i \in 1..Len(xs) |-> labels[i]])
    IN  IF \E i \in 1..Len(xs) : prediction[i].err
        THEN [fatal |-> TRUE, value |-> NaN]
        ELSE [fatal |-> FALSE, value |-> FSub(One, FDiv(residualSum, totalSum))]

\* one mutation: the short return is the negated label
runBacktestNegatedLabel(xs, labels, mdl) ==
    LET prediction == [i \in 1..Len(xs) |-> Predict(mdl, xs[i])]
    IN  [fatal |-> \E i \in 1..Len(xs) : prediction[i].err,
         long |-> [i \in 1..Len(xs) |->
                     IF FGt(prediction[i].value, configuration.LongThreshold)
                     THEN labels[i] ELSE Zero],
         short |-> [i \in 1..Len(xs) |->
                     IF FLt(prediction[i].value, configuration.ShortThreshold)
                     THEN FNeg(labels[i]) ELSE Zero]]

runBacktest(xs, labels, mdl) ==
    LET prediction == [i \in 1..Len(xs) |-> Predict(mdl, xs[i])]
    IN  [fatal |-> \E i \in 1..Len(xs) : prediction[i].err,
         long |-> [i \in 1..Len(xs) |->
                     IF FGt(prediction[i].value, configuration.LongThreshold)
                     THEN labels[i] ELSE Zero],
         short |-> [i \in 1..Len(xs) |->
                     IF FLt(prediction[i].value, configuration.ShortThreshold)
                     THEN FSub(FDiv(One, FAdd(One, labels[i])), One) ELSE Zero]]

(* commons.StdDev and math.Sqrt have irrational results: such a float is kept as
   its sign and its square.  k is "fin", "nan", "pinf" or "ninf". *)
NaNRoot == [k |-> "nan", sign |-> 0, square |-> Zero]

InfRoot(s) == [k |-> IF s > 0 THEN "pinf" ELSE "ninf", sign |-> s, square |-> Zero]

\* the square of commons.StdDev: the mean squared deviation from the mean
Variance(returns) ==
    LET meanReturn == Mean(returns)
    IN  FDiv(SumSeq([i \in 1..Len(returns) |-> Sq(FSub(returns[i], meanReturn))]),
             Int2F(Len(returns)))

\* math.Sqrt(scale) * (excess / stdDev), where stdDev * stdDev = variance
ScaledQuotient(scale, excess, variance) ==
    IF IsNaN(excess) \/ IsNaN(variance) THEN NaNRoot
    ELSE IF IsInf(excess) THEN (IF IsInf(variance) THEN NaNRoot ELSE InfRoot(Sign(excess)))
    ELSE IF IsInf(variance) THEN [k |-> "fin", sign |-> 0, square |-> Zero]
    ELSE IF variance.n = 0
         THEN (IF excess.n = 0 THEN NaNRoot ELSE InfRoot(Sign(excess)))
    ELSE [k |-> "fin", sign |-> Sign(excess),
          square |-> FDiv(FMul(Int2F(scale), Sq(excess)), variance)]

\* one mutation: the guard against an infinite ratio is missing
getSharpeRatioUnguarded(weeklyReturns) ==
    IF Len(weeklyReturns) < 2 THEN NaNRoot
    ELSE LET meanReturn == Mean(weeklyReturns)
             riskFreeRate == FDiv(configuration.RiskFreeRate, Int2F(weeksPerYear))
         IN  ScaledQuotient(weeksPerYear, FSub(meanReturn, riskFreeRate),
                            Variance(weeklyReturns))

getSharpeRatio(weeklyReturns) ==
    IF Len(weeklyReturns) < 2 THEN NaNRoot
    ELSE LET meanReturn == Mean(weeklyReturns)
             riskFreeRate == FDiv(configuration.RiskFreeRate, Int2F(weeksPerYear))
             sharpeRatio == ScaledQuotient(weeksPerYear, FSub(meanReturn, riskFreeRate),
                                           Variance(weeklyReturns))
         IN  IF sharpeRatio.k \in {"pinf", "ninf"} THEN NaNRoot ELSE sharpeRatio

analyzeReturns(returns) ==
    [totalReturn |-> SumSeq(returns), sharpeRatio |-> getSharpeRatio(returns)]

\* a cell of the row: what it shows, its text and its colour
Cell(shows, text, colour) == [shows |-> shows, text |-> text, colour |-> colour]

\* fmt.Sprintf(format, value) and commons.FormatPercentage(value, 2): the text is
\* kept as the format with the value it renders
Sprintf(format, value) == <<format, value>>

\* addParameter(index), index counted from 0 as in the code
ParameterCell(mdl, index) ==
    LET parameter == mdl.Parameters[index + 1]
        text == IF ~FEq(parameter, Zero) THEN Sprintf("%.4f", parameter) ELSE <<"-">>
        colour == IF ~FLt(parameter, featureHighlightThreshold) /\ ~IsNaN(parameter)
                  THEN "green"
                  ELSE IF ~FGt(parameter, FNeg(featureHighlightThreshold)) /\ ~IsNaN(parameter)
                       THEN "red"
                       ELSE "none"
    IN  Cell(<<"parameter", index>>, text, colour)

\* cells after "for j := 1; j < len(model.Parameters); j++" and addParameter(0)
ParameterCells(mdl) ==
    [j \in 1..(Len(mdl.Parameters) - 1) |-> ParameterCell(mdl, j)]
    \o <<ParameterCell(mdl, 0)>>

\* addR2Score
R2Cell(shows, r2Score) == Cell(shows, Sprintf("percentage", r2Score), "none")

\* addReturns
ReturnCells(stance, analysis) ==
    IF ~FEq(analysis.totalReturn, Zero)
    THEN <<Cell(<<"return", stance>>, Sprintf("percentage", analysis.totalReturn), "none"),
           Cell(<<"sharpe", stance>>, Sprintf("%.2f", analysis.sharpeRatio), "none")>>
    ELSE <<Cell(<<"return", stance>>, <<"-">>, "none"),
           Cell(<<"sharpe", stance>>, <<"-">>, "none")>>

MaxExamples == 3

\* examples with one feature (the asset momentum) and their labels
ScoreExamples ==
    { [x |-> Rat(1, 10), label |-> Rat(1, 10)],
      [x |-> Rat(-1, 10), label |-> Rat(-1, 10)],
      [x |-> Zero, label |-> Rat(1, 10)] }

\* the training partitions: none, one example, two examples with different labels
TrainingChoices ==
    { <<>>,
      <<[x |-> Rat(-1, 10), label |-> Rat(-1, 10)]>>,
      <<[x |-> Rat(1, 10), label |-> Rat(1, 10)], [x |-> Rat(-1, 10), label |-> Rat(-1, 10)]>> }

\* the parameter vectors a fit may end with: the identity on the feature, two
\* constant predictors, and the constant predictor of the test labels' mean
ParameterChoices ==
    { <<Zero, One>>, <<Rat(1, 200), Zero>>, <<Rat(-1, 50), Zero>> }
    \cup (IF testLabels = <<>> THEN {} ELSE {<<Mean(testLabels), Zero>>})

ScoreConfigurations ==
    { [NoConfiguration EXCEPT
         !.StartDate = Midnight(0), !.SplitDate = Midnight(2),
         !.EndDate = Midnight(2 + MaxExamples),
         !.EnableReference = FALSE, !.EnableIndex = FALSE, !.EnableWeekdays = FALSE,
         !.LongThreshold = t.long, !.ShortThreshold = t.short, !.RiskFreeRate = rf] :
        t \in { [long |-> Rat(1, 100), short |-> Rat(-1, 100)],
                [long |-> Rat(-1, 100), short |-> Rat(1, 100)] },
        rf \in {Zero, Rat(weeksPerYear, 10)} }

\* the loop's record of an example with the asset momentum as its only feature
ScoreInfo(day) ==
    [date |-> Midnight(day), indexDate |-> Midnight(day),
     previousIndexDate |-> Midnight(day - 1), names |-> <<"asset momentum">>]

InitScore ==
    /\ LoadIdle
    /\ LookupIdle
    /\ configuration \in ScoreConfigurations
    /\ symbol = "ETHUSDT"
    /\ assetStartDate = nil
    /\ assetRecords = <<>>
    /\ assetMap = EmptyMap
    /\ referenceMap = EmptyMap
    /\ indexMap = EmptyMap
    /\ date = configuration.EndDate
    /\ \E training \in TrainingChoices :
        /\ trainingFeatures = [i \in 1..Len(training) |-> <<training[i].x>>]
        /\ trainingLabels = [i \in 1..Len(training) |-> training[i].label]
        /\ trainingInfo = [i \in 1..Len(training) |-> ScoreInfo(i - 1)]
    /\ \E test \in SeqsUpTo(ScoreExamples, MaxExamples) :
        /\ testFeatures = [i \in 1..Len(test) |-> <<test[i].x>>]
        /\ testLabels = [i \in 1..Len(test) |-> test[i].label]
        /\ testInfo = [i \in 1..Len(test) |-> ScoreInfo(i + 1)]
    /\ cellsPc = "fit"
    /\ ScoreIdle
    /\ MainIdle
    /\ PairIdle

scoreFrame ==
    <<configuration, mainVars, pairVars, loadVars, lookupVars, symbol, assetStartDate, assetRecords,
      assetMap, referenceMap, indexMap, date, partitionVars>>

\* model.Learn() returns an error: commons.Fatalf ends the process.  An empty
\* training set is always an error; otherwise the solver may fail or not.
LearnFails ==
    /\ cellsPc = "fit"
    /\ fatal' = TRUE
    /\ cellsPc' = "exit"
    /\ UNCHANGED <<scoreFrame, model, cells, isR2Score, oosR2Score, longReturns,
                   shortReturns, longAnalysis, shortAnalysis>>

\* model.Learn() succeeds: one parameter per feature and the intercept
LearnSucceeds ==
    /\ cellsPc = "fit"
    /\ trainingFeatures # <<>>
    /\ \E parameters \in ParameterChoices :
        /\ Len(parameters) = Len(trainingFeatures[1]) + 1
        /\ model' = [Parameters |-> parameters]
    /\ cells' = <<Cell(<<"symbol">>, <<symbol>>, "white")>>
    /\ cellsPc' = "parameters"
    /\ UNCHANGED <<scoreFrame, isR2Score, oosR2Score, longReturns, shortReturns,
                   longAnalysis, shortAnalysis, fatal>>

AddParameters ==
    /\ cellsPc = "parameters"
    /\ cells' = cells \o ParameterCells(model)
    /\ cellsPc' = "isR2"
    /\ UNCHANGED <<scoreFrame, model, isR2Score, oosR2Score, longReturns, shortReturns,
                   longAnalysis, shortAnalysis, fatal>>

ScoreInSample ==
    /\ cellsPc = "isR2"
    /\ LET r == getR2Score(trainingFeatures, trainingLabels, model) IN
        IF r.fatal
        THEN /\ fatal' = TRUE
             /\ cellsPc' = "exit"
             /\ UNCHANGED <<isR2Score, cells>>
        ELSE /\ isR2Score' = r.value
             /\ cells' = Append(cells, R2Cell(<<"IS R2">>, r.value))
             /\ cellsPc' = "oosR2"
             /\ UNCHANGED fatal
    /\ UNCHANGED <<scoreFrame, model, oosR2Score, longReturns, shortReturns,
                   longAnalysis, shortAnalysis>>

ScoreOutOfSample ==
    /\ cellsPc = "oosR2"
    /\ LET r == getR2Score(testFeatures, testLabels, model) IN
        IF r.fatal
        THEN /\ fatal' = TRUE
             /\ cellsPc' = "exit"
             /\ UNCHANGED <<oosR2Score, cells>>
        ELSE /\ oosR2Score' = r.value
             /\ cells' = Append(cells, R2Cell(<<"OOS R2">>, r.value))
             /\ cellsPc' = "backtest"
             /\ UNCHANGED fatal
    /\ UNCHANGED <<scoreFrame, model, isR2Score, longReturns, shortReturns,
                   longAnalysis, shortAnalysis>>

Backtest ==
    /\ cellsPc = "backtest"
    /\ LET r == runBacktest(testFeatures, testLabels, model) IN
        IF r.fatal
        THEN /\ fatal' = TRUE
             /\ cellsPc' = "exit"
             /\ UNCHANGED <<longReturns, shortReturns>>
        ELSE /\ longReturns' = r.long
             /\ shortReturns' = r.short
             /\ cellsPc' = "long"
             /\ UNCHANGED fatal
    /\ UNCHANGED <<scoreFrame, model, cells, isR2Score, oosR2Score, longAnalysis,
                   shortAnalysis>>

AddLongReturns ==
    /\ cellsPc = "long"
    /\ longAnalysis' = analyzeReturns(longReturns)
    /\ cells' = cells \o ReturnCells("long", analyzeReturns(longReturns))
    /\ cellsPc' = "short"
    /\ UNCHANGED <<scoreFrame, model, isR2Score, oosR2Score, longReturns, shortReturns,
                   shortAnalysis, fatal>>

AddShortReturns ==
    /\ cellsPc = "short"
    /\ shortAnalysis' = analyzeReturns(shortReturns)
    /\ cells' = cells \o ReturnCells("short", analyzeReturns(shortReturns))
    /\ cellsPc' = "return"
    /\ UNCHANGED <<scoreFrame, model, isR2Score, oosR2Score, longReturns, shortReturns,
                   longAnalysis, fatal>>

NextScore ==
    \/ LearnFails
    \/ LearnSucceeds
    \/ AddParameters
    \/ ScoreInSample
    \/ ScoreOutOfSample
    \/ Backtest
    \/ AddLongReturns
    \/ AddShortReturns

SpecScore == InitScore /\ [][NextScore]_vars

Predictions(xs) == [i \in 1..Len(xs) |-> Predict(model, xs[i]).value]

\* the partitions scored so far, each with its R2 score
Scored ==
    (IF cellsPc \in {"oosR2", "backtest", "long", "short", "return"}
     THEN {[xs |-> trainingFeatures, labels |-> trainingLabels, r2 |-> isR2Score]}
     ELSE {})
    \cup (IF cellsPc \in {"backtest", "long", "short", "return"}
          THEN {[xs |-> testFeatures, labels |-> testLabels, r2 |-> oosR2Score]}
          ELSE {})

(* C5 as stated: for every scored partition, R2 is 1.0 if every prediction
   equals its label, and 0.0 if every prediction equals the partition's label
   mean. *)
C5_AsStated ==
    \A p \in Scored :
        LET prediction == Predictions(p.xs)
            meanObserved == Mean(p.labels)
        IN  /\ (\A i \in 1..Len(p.xs) : prediction[i] = p.labels[i]) => p.r2 = One
            /\ (\A i \in 1..Len(p.xs) : prediction[i] = meanObserved) => p.r2 = Zero

(* C5, amended: for every scored partition whose sum of squared deviations of
   the labels from their mean is not zero, R2 is 1.0 if every prediction equals
   its label, and 0.0 if every prediction equals the partition's label mean; a
   partition where that sum is zero (no example, one example, equal labels)
   has R2 NaN or -Inf, never 1.0 or 0.0. *)
C5_R2WithVariance ==
    \A p \in Scored :
        LET prediction == Predictions(p.xs)
            meanObserved == Mean(p.labels)
        IN  IF TotalSum(p.labels) # Zero
            THEN /\ (\A i \in 1..Len(p.xs) : prediction[i] = p.labels[i]) => p.r2 = One
                 /\ (\A i \in 1..Len(p.xs) : prediction[i] = meanObserved) => p.r2 = Zero
            ELSE p.r2 \in {NaN, NInf}

\* a test partition with different labels scored 1.0 by a model that predicts
\* every label
C5_Witness ==
    /\ cellsPc = "return"
    /\ TotalSum(testLabels) # Zero
    /\ \A i \in 1..Len(testFeatures) : Predictions(testFeatures)[i] = testLabels[i]
    /\ oosR2Score = One

\* a test partition with different labels scored 0.0 by a model that predicts
\* their mean
C5_WitnessMean ==
    /\ cellsPc = "return"
    /\ TotalSum(testLabels) # Zero
    /\ \A i \in 1..Len(testFeatures) : Predictions(testFeatures)[i] = Mean(testLabels)
    /\ oosR2Score = Zero

(* C4: after the backtest the long and the short series have one entry per test
   example, in the order of the test partition; entry i of the long series is the
   label of example i if its prediction is strictly above LongThreshold and 0
   otherwise; entry i of the short series is 0 unless the prediction is strictly
   below ShortThreshold, and then it is the s with s * (1 + label) = -label, that
   is 1/(1+label) - 1; a prediction from ShortThreshold to LongThreshold gives 0
   in both. *)
C4_BacktestRule ==
    cellsPc \in {"long", "short", "return"} =>
        /\ Len(longReturns) = Len(testLabels)
        /\ Len(shortReturns) = Len(testLabels)
        /\ LET prediction == Predictions(testFeatures) IN
           \A i \in 1..Len(testLabels) :
            LET p == prediction[i] IN
            /\ longReturns[i] =
                 (IF FGt(p, configuration.LongThreshold) THEN testLabels[i] ELSE Zero)
            /\ IF FLt(p, configuration.ShortThreshold)
               THEN /\ FMul(shortReturns[i], FAdd(One, testLabels[i])) = FNeg(testLabels[i])
                    /\ shortReturns[i] = FSub(FDiv(One, FAdd(One, testLabels[i])), One)
               ELSE shortReturns[i] = Zero
            /\ (~FLt(p, configuration.ShortThreshold) /\ ~FGt(p, configuration.LongThreshold))
                 => longReturns[i] = Zero /\ shortReturns[i] = Zero

\* a backtest with the thresholds 0.01 and -0.01 over a prediction of 0.005 and
\* a label of 0.10: both entries are 0
C4_Witness ==
    /\ cellsPc = "return"
    /\ configuration.LongThreshold = Rat(1, 100)
    /\ configuration.ShortThreshold = Rat(-1, 100)
    /\ \E i \in 1..Len(testLabels) :
        /\ Predictions(testFeatures)[i] = Rat(1, 200)
        /\ testLabels[i] = Rat(1, 10)
        /\ longReturns[i] = Zero
        /\ shortReturns[i] = Zero

\* an active short signal over a label of 0.10 returns 1/1.10 - 1
C4_WitnessShort ==
    /\ cellsPc = "return"
    /\ \E i \in 1..Len(testLabels) :
        /\ FLt(Predictions(testFeatures)[i], configuration.ShortThreshold)
        /\ testLabels[i] = Rat(1, 10)
        /\ shortReturns[i] = Rat(-1, 11)

\* the stances analysed so far: the return series and its Sharpe ratio
Analysed ==
    (IF cellsPc \in {"short", "return"}
     THEN {[returns |-> longReturns, sharpeRatio |-> longAnalysis.sharpeRatio]}
     ELSE {})
    \cup (IF cellsPc = "return"
          THEN {[returns |-> shortReturns, sharpeRatio |-> shortAnalysis.sharpeRatio]}
          ELSE {})

(* C6: the Sharpe ratio of a return series with fewer than 2 entries, or with a
   standard deviation of zero, is NaN; no Sharpe ratio is +Inf or -Inf; and
   computing it does not end the run. *)
C6_SharpeUndefined ==
    /\ \A a \in Analysed :
        /\ (Len(a.returns) < 2 \/ Variance(a.returns) = Zero) => a.sharpeRatio.k = "nan"
        /\ a.sharpeRatio.k \notin {"pinf", "ninf"}
    /\ cellsPc \in {"short", "return"} => ~fatal

\* two equal long returns above the risk-free rate: the ratio would be +Inf
C6_Witness ==
    /\ cellsPc = "return"
    /\ Len(longReturns) >= 2
    /\ Variance(longReturns) = Zero
    /\ FGt(Mean(longReturns), FDiv(configuration.RiskFreeRate, Int2F(weeksPerYear)))
    /\ longAnalysis.sharpeRatio.k = "nan"

\* the text of the Sharpe cell of a stance in the finished row
SharpeText(stance) ==
    LET k == CHOOSE k \in 1..Len(cells) :
                 /\ cells[k].shows[1] = "sharpe"
                 /\ cells[k].shows[2] = stance
    IN  cells[k].text

(* C13: whenever the Sharpe ratio of a stance is undefined (fewer than 2 test
   returns, or a standard deviation of zero), the Sharpe cell of that stance in
   the row is the placeholder "-" and not a formatted number, and the run has
   not aborted. *)
C13_AsStated ==
    cellsPc = "return" =>
        /\ ~fatal
        /\ (Len(longReturns) < 2 \/ Variance(longReturns) = Zero)
            => SharpeText("long") = <<"-">>
        /\ (Len(shortReturns) < 2 \/ Variance(shortReturns) = Zero)
            => SharpeText("short") = <<"-">>

\* ---------------------------------------------------------------------------
\* analyzeData: the report, assembled from the per-asset calls of
\* getRegressionCells that commons.ParallelMap runs concurrently
\* ---------------------------------------------------------------------------

\* the weekday columns of the header
HeaderWeekdaysFromTuesday ==
    <<"Tuesday", "Wednesday", "Thursday", "Friday", "Saturday">>

HeaderWeekdays ==
    <<"Monday", "Tuesday", "Wednesday", "Thursday", "Friday", "Saturday", "Sunday">>

\* header, as analyzeData builds it from the enable flags
Header ==
    <<"Symbol">>
    \o (IF configuration.EnableMomentum THEN <<"Momentum">> ELSE <<>>)
    \o (IF configuration.EnableReference THEN <<"BTC">> ELSE <<>>)
    \o (IF configuration.EnableIndex THEN <<configuration.IndexSymbol>> ELSE <<>>)
    \o (IF configuration.EnableWeekdays THEN HeaderWeekdays ELSE <<>>)
    \o <<"Intercept", "IS R2", "OOS R2", "Ret (Long)", "SR (Long)", "Ret (Short)",
         "SR (Short)">>

\* regressionData: what getRegressionCells returns once the model is fitted.  A
\* failing Predict inside getR2Score or runBacktest calls commons.Fatalf instead.
regressionData(sym, acc, mdl) ==
    LET isScore == getR2Score(acc.trainingFeatures, acc.trainingLabels, mdl)
        oosScore == getR2Score(acc.testFeatures, acc.testLabels, mdl)
        backtest == runBacktest(acc.testFeatures, acc.testLabels, mdl)
    IN  IF isScore.fatal \/ oosScore.fatal \/ backtest.fatal
        THEN [fatal |-> TRUE, cells |-> <<>>, oosR2Score |-> NaN]
        ELSE [fatal |-> FALSE,
              cells |-> <<Cell(<<"symbol">>, <<sym>>, "white")>>
                        \o ParameterCells(mdl)
                        \o <<R2Cell(<<"IS R2">>, isScore.value),
                             R2Cell(<<"OOS R2">>, oosScore.value)>>
                        \o ReturnCells("long", analyzeReturns(backtest.long))
                        \o ReturnCells("short", analyzeReturns(backtest.short)),
              oosR2Score |-> oosScore.value]

\* commons.ParallelMap: the value returned for the element at index i of the
\* input is stored at index i of the result
ParallelMapStore(results, i, result) == [results EXCEPT ![i] = result]

\* commons.Fatalf: prints the diagnostic and ends the process
FatalfReturns == "return"

Fatalf == "exit"

\* the rows of the table: the cells of data, in the order of the range loop
RECURSIVE CollectRowsPrepending(_)
CollectRowsPrepending(results) ==
    IF results = <<>> THEN <<>>
    ELSE CollectRowsPrepending(Tail(results)) \o <<Head(results).cells>>

RECURSIVE CollectRows(_)
CollectRows(results) ==
    IF results = <<>> THEN <<>>
    ELSE <<Head(results).cells>> \o CollectRows(Tail(results))

\* the scores for the median, in the order of the range loop
RECURSIVE CollectScores(_)
CollectScores(results) ==
    IF results = <<>> THEN <<>>
    ELSE <<Head(results).oosR2Score>> \o CollectScores(Tail(results))

\* commons.Median(oosR2Scores), kept as the application to its argument
Median(values) == <<"median", values>>

\* --- the inputs of a run ---

MaxAssets == 2

AssetSymbols == {"ETHUSDT", bitcoinSymbol, "SOLUSDT"}

SolanaClose == [d \in 0..(MaxDay + 1) |-> Int2F(d + 2)]

\* the hourly records on disk, per symbol
AssetFile ==
    [sym \in AssetSymbols |->
        HourlyRecords(0, {}, IF sym = "ETHUSDT" THEN AssetClose
                             ELSE IF sym = bitcoinSymbol THEN ReferenceClose
                             ELSE SolanaClose)]

\* the daily records of the index on disk
IndexFile ==
    [i \in 1..(MaxDay + 1) |-> [Timestamp |-> Midnight(i - 1), Close |-> IndexClose(i - 1)]]

\* configuration.Assets: lists of distinct assets
AssetLists ==
    { list \in SeqsUpTo(AssetSymbols, MaxAssets) :
        /\ list # <<>>
        /\ \A i, j \in 1..Len(list) : i # j => list[i] # list[j] }

RunConfigurations ==
    { [NoConfiguration EXCEPT
         !.StartDate = Midnight(StartDay), !.SplitDate = Midnight(StartDay + 1),
         !.EndDate = Midnight(MaxDay - 1),
         !.EnableMomentum = m, !.EnableReference = r, !.EnableIndex = x,
         !.EnableWeekdays = w,
         !.LongThreshold = Rat(1, 100), !.ShortThreshold = Rat(-1, 100),
         !.Assets = [i \in 1..Len(list) |-> [Symbol |-> list[i], StartDate |-> nil]]] :
        m \in BOOLEAN, r \in BOOLEAN, x \in BOOLEAN, w \in BOOLEAN,
        list \in AssetLists }

\* the parameter vectors a successful model.Learn() may leave for n features
FittedParameters(n) ==
    { [j \in 1..(n + 1) |-> Zero], [j \in 1..(n + 1) |-> Int2F(j)] }

NoData == [cells |-> <<>>, oosR2Score |-> Zero]

QueuedWorker ==
    [pc |-> "queued", partitions |-> EmptyPartitions, model |-> NoModel,
     failed |-> FALSE, result |-> NoData]

InitRun ==
    /\ LoadIdle
    /\ LookupIdle
    /\ CellsIdle
    /\ ScoreIdle
    /\ PairIdle
    /\ configuration \in RunConfigurations
    /\ mainPc = "start"
    /\ header = <<>>
    /\ workers = [i \in 1..Len(configuration.Assets) |-> QueuedWorker]
    /\ data = [i \in 1..Len(configuration.Assets) |-> NoData]
    /\ arrival = <<>>
    /\ rows = <<>>
    /\ oosR2Scores = <<>>
    /\ stdout = <<>>

mainFrame ==
    <<configuration, pairVars, loadVars, lookupVars, symbol, assetStartDate, assetRecords, assetMap,
      date, partitionVars, cellsPc, model, cells, isR2Score, oosR2Score, longReturns,
      shortReturns, longAnalysis, shortAnalysis>>

\* analyzeData up to the call of commons.ParallelMap: the two shared maps and
\* the header
Prepare ==
    /\ mainPc = "start"
    /\ ~fatal
    /\ referenceMap' = loadDailyRecords(AssetFile[bitcoinSymbol], nil, TRUE)
    /\ indexMap' = loadDailyRecords(IndexFile, nil, FALSE)
    /\ header' = Header
    /\ mainPc' = "parallel"
    /\ UNCHANGED <<mainFrame, fatal, workers, data, arrival, rows, oosR2Scores, stdout>>

\* the call for asset i: getRegressionCells up to the model fit
WorkerWalk(i) ==
    /\ mainPc = "parallel"
    /\ ~fatal
    /\ workers[i].pc = "queued"
    /\ LET asset == configuration.Assets[i]
           loaded == loadDailyRecords(AssetFile[asset.Symbol], asset.StartDate, TRUE)
       IN  workers' = [workers EXCEPT
                ![i].partitions = WalkFrom(EmptyPartitions, asset.Symbol,
                                           configuration.StartDate, loaded, referenceMap,
                                           indexMap),
                ![i].pc = "fit"]
    /\ UNCHANGED <<mainFrame, referenceMap, indexMap, fatal, mainPc, header, data, arrival,
                   rows, oosR2Scores, stdout>>

\* model.Learn() of call i returns an error and commons.Fatalf is called
WorkerLearnFails(i) ==
    /\ mainPc = "parallel"
    /\ ~fatal
    /\ workers[i].pc = "fit"
    /\ LET features == workers[i].partitions.trainingFeatures IN
        workers' = [workers EXCEPT
            ![i].failed = TRUE,
            ![i].model = IF features = <<>> THEN NoModel
                         ELSE [Parameters |-> [j \in 1..(Len(features[1]) + 1) |-> Zero]],
            ![i].pc = IF Fatalf = "exit" THEN "exit" ELSE "cells"]
    /\ fatal' = (Fatalf = "exit")
    /\ UNCHANGED <<mainFrame, referenceMap, indexMap, mainPc, header, data, arrival, rows,
                   oosR2Scores, stdout>>

\* model.Learn() of call i succeeds
WorkerLearnSucceeds(i) ==
    /\ mainPc = "parallel"
    /\ ~fatal
    /\ workers[i].pc = "fit"
    /\ workers[i].partitions.trainingFeatures # <<>>
    /\ \E parameters \in FittedParameters(Len(workers[i].partitions.trainingFeatures[1])) :
        workers' = [workers EXCEPT ![i].model = [Parameters |-> parameters],
                                   ![i].pc = "cells"]
    /\ UNCHANGED <<mainFrame, referenceMap, indexMap, fatal, mainPc, header, data, arrival,
                   rows, oosR2Scores, stdout>>

\* call i builds its row and returns; ParallelMap stores the result in the slot
\* of the input element
WorkerReturn(i) ==
    /\ mainPc = "parallel"
    /\ ~fatal
    /\ workers[i].pc = "cells"
    /\ \E r \in {regressionData(configuration.Assets[i].Symbol, workers[i].partitions,
                                workers[i].model)} :
           IF r.fatal /\ Fatalf = "exit"
           THEN /\ workers' = [workers EXCEPT ![i].failed = TRUE, ![i].pc = "exit"]
                /\ fatal' = TRUE
                /\ UNCHANGED <<data, arrival>>
           ELSE /\ workers' = [workers EXCEPT
                     ![i].failed = @ \/ r.fatal,
                     ![i].result = [cells |-> r.cells, oosR2Score |-> r.oosR2Score],
                     ![i].pc = "done"]
                /\ data' = ParallelMapStore(data, i, [cells |-> r.cells,
                                                      oosR2Score |-> r.oosR2Score])
                /\ arrival' = Append(arrival, i)
                /\ UNCHANGED fatal
    /\ UNCHANGED <<mainFrame, referenceMap, indexMap, mainPc, header, rows, oosR2Scores,
                   stdout>>

\* ParallelMap has returned: the range loop over data
Collect ==
    /\ mainPc = "parallel"
    /\ ~fatal
    /\ \A i \in 1..Len(workers) : workers[i].pc = "done"
    /\ rows' = CollectRows(data)
    /\ oosR2Scores' = CollectScores(data)
    /\ mainPc' = "table"
    /\ UNCHANGED <<mainFrame, referenceMap, indexMap, fatal, header, workers, data, arrival,
                   stdout>>

\* the table: a blank line, the header, the rows, a blank line
PrintTable ==
    /\ mainPc = "table"
    /\ ~fatal
    /\ stdout' = stdout \o <<<<"blank">>, <<"header", header>>>>
                        \o [i \in 1..Len(rows) |-> <<"row", rows[i]>>]
                        \o <<<<"blank">>>>
    /\ mainPc' = "summary"
    /\ UNCHANGED <<mainFrame, referenceMap, indexMap, fatal, header, workers, data, arrival,
                   rows, oosR2Scores>>

\* the summary lines
PrintSummary ==
    /\ mainPc = "summary"
    /\ ~fatal
    /\ stdout' = stdout
         \o <<<<"IS time range", configuration.StartDate, configuration.SplitDate>>,
              <<"OOS time range", configuration.SplitDate, configuration.EndDate>>,
              <<"Median OOS R2 score", Sprintf("percentage", Median(oosR2Scores))>>>>
         \o (IF configuration.EnableWeekdayFilter
             THEN <<<<"Weekday filter", configuration.WeekdayFilter>>>> ELSE <<>>)
         \o (IF configuration.HoldingTime > 1
             THEN <<<<"Holding time", configuration.HoldingTime>>>> ELSE <<>>)
         \o <<<<"blank">>>>
    /\ mainPc' = "end"
    /\ UNCHANGED <<mainFrame, referenceMap, indexMap, fatal, header, workers, data, arrival,
                   rows, oosR2Scores>>

Next ==
    \/ Prepare
    \/ \E i \in 1..Len(workers) : WorkerWalk(i)
    \/ \E i \in 1..Len(workers) : WorkerLearnFails(i)
    \/ \E i \in 1..Len(workers) : WorkerLearnSucceeds(i)
    \/ \E i \in 1..Len(workers) : WorkerReturn(i)
    \/ Collect
    \/ PrintTable
    \/ PrintSummary

Spec == InitRun /\ [][Next]_vars

\* the calls of ParallelMap, by the position of their asset in configuration.Assets
Calls == 1..Len(workers)

Collected == mainPc \in {"table", "summary", "end"}

\* the rows of the table as printed, in the order of the output
PrintedRows == SelectSeq(stdout, LAMBDA line : line[1] = "row")

(* C7: in whatever order the concurrent per-asset calls run and return, the
   i-th row of the report, the i-th score given to the median and the i-th row
   printed are those of the i-th asset of configuration.Assets. *)
C7_InputOrder ==
    /\ Collected =>
        /\ Len(rows) = Len(configuration.Assets)
        /\ Len(oosR2Scores) = Len(configuration.Assets)
        /\ \A i \in Calls :
            /\ rows[i] = workers[i].result.cells
            /\ rows[i][1].text = <<configuration.Assets[i].Symbol>>
            /\ oosR2Scores[i] = workers[i].result.oosR2Score
    /\ mainPc \in {"summary", "end"} =>
        PrintedRows = [i \in Calls |-> <<"row", workers[i].result.cells>>]

\* a report is printed after the calls returned in another order than the
\* assets are listed, with different scores
C7_Witness ==
    /\ mainPc = "end"
    /\ Len(arrival) >= 2
    /\ arrival[1] > arrival[2]
    /\ oosR2Scores[1] # oosR2Scores[2]

AnyFailed == \E i \in Calls : workers[i].failed

(* C8: once the call for any asset hits a fatal error (the model fit or a
   prediction fails), the process has ended and nothing, no header, row or
   summary line, has been or will be written to the output, however many other
   calls have returned. *)
C8_AbortWritesNothing ==
    AnyFailed => /\ fatal
                 /\ stdout = <<>>
                 /\ mainPc = "parallel"

\* the fit of one asset fails after the call for another asset has returned its row
C8_Witness ==
    /\ fatal
    /\ AnyFailed
    /\ \E j \in Calls : workers[j].pc = "done" /\ data[j].cells # <<>>

\* the header column of a feature, by the quantity the feature holds
FeatureColumn(name) ==
    IF name = "asset momentum" THEN "Momentum"
    ELSE IF name = "reference momentum" THEN "BTC"
    ELSE IF name = "index momentum" THEN configuration.IndexSymbol
    ELSE name

\* the header column a cell belongs under; names are the quantities of the
\* feature vector the model was fitted on, in vector order
ColumnOf(cell, names) ==
    LET kind == cell.shows[1] IN
    IF kind = "symbol" THEN "Symbol"
    ELSE IF kind = "parameter"
         THEN (IF cell.shows[2] = 0 THEN "Intercept"
               ELSE FeatureColumn(names[cell.shows[2]]))
    ELSE IF kind = "return"
         THEN (IF cell.shows[2] = "long" THEN "Ret (Long)" ELSE "Ret (Short)")
    ELSE IF kind = "sharpe"
         THEN (IF cell.shows[2] = "long" THEN "SR (Long)" ELSE "SR (Short)")
    ELSE kind

EnabledFeatures ==
    (IF configuration.EnableMomentum THEN 1 ELSE 0)
    + (IF configuration.EnableReference THEN 1 ELSE 0)
    + (IF configuration.EnableIndex THEN 1 ELSE 0)
    + (IF configuration.EnableWeekdays THEN daysPerWeek ELSE 0)

FittedRows == {i \in Calls : workers[i].pc = "done" /\ ~workers[i].failed}

(* C9: for every combination of the enable flags, a row returned by
   getRegressionCells for a fitted model has as many cells as the header has
   columns, and its k-th cell belongs under the k-th column: the symbol, the
   coefficient of each enabled feature in feature order (each weekday slot under
   the weekday it indicates), the intercept, IS R2, OOS R2, and the return and
   Sharpe ratio of the long and of the short side. *)
C9_HeaderRowAgreement ==
    \A i \in FittedRows :
        LET row == workers[i].result.cells
            names == workers[i].partitions.trainingInfo[1].names
        IN  /\ Len(row) = Len(header)
            /\ Len(row) = 1 + EnabledFeatures + 1 + 2 + 4
            /\ \A k \in 1..Len(row) : ColumnOf(row[k], names) = header[k]

\* a row is returned with the weekday and index columns but neither momentum column
C9_Witness ==
    /\ FittedRows # {}
    /\ configuration.EnableWeekdays
    /\ configuration.EnableIndex
    /\ ~configuration.EnableMomentum
    /\ ~configuration.EnableReference

\* a row is returned with every feature group disabled
C9_WitnessNoFeatures ==
    /\ FittedRows # {}
    /\ EnabledFeatures = 0

\* ---------------------------------------------------------------------------
\* The loop body of getRegressionCells for one date, in two runs whose price
\* series agree up to that date
\* ---------------------------------------------------------------------------

\* the days with prices: a week of dates, the day before and the days a label
\* may reach
FeatureDays == 0..(daysPerWeek + 2)

\* the dates the loop body is run for: every weekday once
FeatureDates == {Midnight(d) : d \in 1..daysPerWeek}

\* daily closes on the days of S: day d closes at scale * d + 1
DailySeries(S, scale) == [t \in {Midnight(d) : d \in S} |-> Int2F(scale * t[1] + 1)]

\* how the series of the second run differ from the first after date d
LaterChanges == {"same", "changed", "removed"}

\* series with the closes after d changed or removed, and those up to d kept
Later(series, d, change) ==
    [t \in {u \in DOMAIN series : change # "removed" \/ ~Before(d, u)} |->
        IF change = "changed" /\ Before(d, t) THEN FAdd(series[t], One) ELSE series[t]]

\* the index days missing around date d: none, d itself, or d and the day before
IndexGaps(d) == {{}, {d[1]}, {d[1], d[1] - 1}}

FeatureConfigurations ==
    { [NoConfiguration EXCEPT
         !.EnableMomentum = f.m, !.EnableReference = f.r, !.EnableIndex = f.i,
         !.EnableWeekdays = f.w, !.HoldingTime = h] :
        f \in FeatureChoices, h \in 1..2 }

InitFeatures ==
    /\ LoadIdle
    /\ LookupIdle
    /\ ScoreIdle
    /\ MainIdle
    /\ configuration \in FeatureConfigurations
    /\ \E f \in FeatureChoices :
        /\ symbol = f.sym
        /\ configuration.EnableMomentum = f.m
        /\ configuration.EnableReference = f.r
        /\ configuration.EnableIndex = f.i
        /\ configuration.EnableWeekdays = f.w
    /\ date \in FeatureDates
    /\ assetStartDate = nil
    /\ assetRecords = <<>>
    /\ assetMap = DailySeries(FeatureDays, 1)
    /\ referenceMap = DailySeries(FeatureDays, 2)
    /\ \E gap \in IndexGaps(date) : indexMap = DailySeries(FeatureDays \ gap, 3)
    /\ \E change \in LaterChanges : laterAssetMap = Later(assetMap, date, change)
    /\ \E change \in LaterChanges \ {"removed"} :
        laterReferenceMap = Later(referenceMap, date, change)
    /\ \E change \in LaterChanges : laterIndexMap = Later(indexMap, date, change)
    /\ trainingFeatures = <<>>
    /\ trainingLabels = <<>>
    /\ testFeatures = <<>>
    /\ testLabels = <<>>
    /\ trainingInfo = <<>>
    /\ testInfo = <<>>
    /\ cellsPc = "body"
    /\ example = Skipped
    /\ laterExample = Skipped
    /\ built = {}

featuresFrame ==
    <<configuration, loadVars, lookupVars, cellsVars, scoreVars, mainVars, laterAssetMap,
      laterReferenceMap, laterIndexMap>>

\* the loop body for date in the first run
BuildExample ==
    /\ cellsPc = "body"
    /\ "first" \notin built
    /\ example' = Example(symbol, date, assetMap, referenceMap, indexMap)
    /\ built' = built \cup {"first"}
    /\ UNCHANGED <<featuresFrame, laterExample>>

\* the loop body for date in the second run
BuildLaterExample ==
    /\ cellsPc = "body"
    /\ "later" \notin built
    /\ laterExample' = Example(symbol, date, laterAssetMap, laterReferenceMap,
                               laterIndexMap)
    /\ built' = built \cup {"later"}
    /\ UNCHANGED <<featuresFrame, example>>

NextFeatures == BuildExample \/ BuildLaterExample

SpecFeatures == InitFeatures /\ [][NextFeatures]_vars

\* the examples the loop body has produced for date, in either run
BuiltExamples ==
    (IF "first" \in built /\ ~example.skip THEN {example} ELSE {})
    \cup (IF "later" \in built /\ ~laterExample.skip THEN {laterExample} ELSE {})

(* C14: with the weekday indicators enabled, the feature vector of every example
   ends with 7 values, one of them 1 and the other six 0, and the slot holding
   the 1 is the weekday of the example's date counted from Monday = 0 to
   Sunday = 6, on every weekday. *)
C14_WeekdayOneHot ==
    configuration.EnableWeekdays =>
        \A e \in BuiltExamples :
            LET n == Len(e.features)
                slot == [j \in 0..(daysPerWeek - 1) |-> e.features[n - daysPerWeek + j + 1]]
                fromMonday == <<"Monday", "Tuesday", "Wednesday", "Thursday", "Friday",
                                "Saturday", "Sunday">>
            IN  /\ n >= daysPerWeek
                /\ \A j \in DOMAIN slot : slot[j] \in {Zero, One}
                /\ Cardinality({j \in DOMAIN slot : slot[j] = One}) = 1
                /\ \A j \in DOMAIN slot :
                    slot[j] = One <=> fromMonday[j + 1] = WeekdayName[Weekday(e.info.date)]

\* an example on a Sunday: the last slot holds the 1
C14_Witness ==
    /\ configuration.EnableWeekdays
    /\ "first" \in built
    /\ ~example.skip
    /\ Weekday(date) = 0
    /\ example.features[Len(example.features)] = One
    /\ example.features[Len(example.features) - daysPerWeek + 1] = Zero

\* every weekday has an example
C14_WitnessMonday ==
    /\ configuration.EnableWeekdays
    /\ "first" \in built
    /\ ~example.skip
    /\ Weekday(date) = 1
    /\ example.features[Len(example.features) - daysPerWeek + 1] = One

\* the two series hold the same closes on the same dates up to d
AgreeUpTo(first, second, d) ==
    \A t \in DOMAIN first \cup DOMAIN second :
        ~Before(d, t) => /\ t \in DOMAIN first
                         /\ t \in DOMAIN second
                         /\ first[t] = second[t]

BothBuilt == built = {"first", "later"}

(* C15: with HoldingTime >= 1, two runs whose asset, reference and index series
   agree on every date up to d and differ only after d give the same feature
   vector for d whenever both produce an example for d; the index dates read are
   at or before d; only the label and the decision to skip may differ. *)
C15_NoLookAhead ==
    ( /\ BothBuilt
      /\ configuration.HoldingTime >= 1
      /\ AgreeUpTo(assetMap, laterAssetMap, date)
      /\ AgreeUpTo(referenceMap, laterReferenceMap, date)
      /\ AgreeUpTo(indexMap, laterIndexMap, date)
      /\ ~example.skip
      /\ ~laterExample.skip )
    => /\ example.features = laterExample.features
       /\ example.info.indexDate = laterExample.info.indexDate
       /\ example.info.previousIndexDate = laterExample.info.previousIndexDate
       /\ ~Before(date, example.info.indexDate)

\* both runs produce an example for a date in a gap of the index; every series
\* differs after the date and so do the labels
C15_Witness ==
    /\ BothBuilt
    /\ ~example.skip
    /\ ~laterExample.skip
    /\ configuration.EnableIndex
    /\ ~Has(indexMap, date)
    /\ laterAssetMap # assetMap
    /\ laterReferenceMap # referenceMap
    /\ laterIndexMap # indexMap
    /\ example.label # laterExample.label
    /\ example.features = laterExample.features

\* the later price decides the skip: the second run has no close at d+HoldingTime
C15_WitnessSkip ==
    /\ BothBuilt
    /\ ~example.skip
    /\ laterExample.skip

====
